---- MODULE Spec2Model ----
(***************************************************************************)
(* Model of main.py of the Pico W weather station: the main sequence, the  *)
(* network joiner connect_to_wifi, the sensor reader refresh_weatherData,  *)
(* the display refresh display_weatherData, the page builder web_page and  *)
(* the two service loops run_display_and_webserver and run_display_only.   *)
(*                                                                         *)
(* The program is single threaded.  pc is the statement it is about to     *)
(* execute; every action executes one call of the program together with    *)
(* the exception handling that the call's outcome triggers.  The outcome   *)
(* of a call on a driver (sensor, display, radio, socket) is chosen by the *)
(* environment: it returns, or it raises one of the exception kinds below. *)
(* A KeyboardInterrupt is raised inside the call during which the          *)
(* interrupt arrives.                                                      *)
(***************************************************************************)
EXTENDS Integers, Sequences, FiniteSets, TLC

\* ---------------------------------------------------------------- bounds
\* largest number of entries of wifiNetworks that is explored
MaxNetworks == 2
\* largest number of client sockets the network stack keeps open at once
MaxConns == 2

\* ------------------------------------------------------ program constants
\* for i in range(2)
Tries == 2
\* while ... and wait < 10
MaxWait == 10
\* wlan.status() < 3 : 3 is the status "link up, address assigned"
STAT_GOT_IP == 3
\* the lowest status the radio reports (wrong password)
STAT_MIN == -3
\* if e.errno == 110
ETIMEDOUT == 110
\* an errno other than 110 (connection reset)
ECONNRESET == 104

NA == "n/a"
TemperatureValues == {"21.4C", "22.0C"}
PressureValues == {"998.1hPa"}
HumidityValues == {"35.2%"}
Requests == {"GET / HTTP/1.1", "POST /x HTTP/1.1"}
Fields == {"temperature", "pressure", "humidity"}

\* exception kinds: OSError is identified by its errno; "Exception" is an
\* Exception that is no OSError (MemoryError, TypeError, ...)
NoExc == [kind |-> "none", errno |-> 0, at |-> "none"]
Exc(k, e, at) == [kind |-> k, errno |-> e, at |-> at]
OSErr(e, at) == Exc("OSError", e, at)
KbdInt(at) == Exc("KeyboardInterrupt", 0, at)
OtherExc(at) == Exc("Exception", 0, at)

VARIABLES
    pc,             \* the statement about to be executed
    ctx,            \* the call site display_weatherData returns to
    raised,         \* the exception raised by the last executed call
    intAt,          \* the call during which the interrupt caught by a loop arrived
    temperature, pressure, humidity,     \* the Reading Set (globals)
    written,        \* fields assigned from the sensor by the current refresh
    lastRefresh,    \* how the most recent refresh_weatherData ended
    display,        \* what the LCD shows
    led,            \* onboard LED
    wifiNetworks,   \* the candidates, in iteration order
    joinable,       \* candidates the radio can join (environment)
    netIdx, i, wait,    \* locals of connect_to_wifi
    connectCalls,   \* the wlan.connect calls made, in order
    result,         \* what connect_to_wifi returned
    online,         \* what wlan.isconnected() reported to the main sequence
    wlanActive,     \* wlan.active
    wlanTarget,     \* network of the last wlan.connect, 0 after wlan.disconnect
    server,         \* listening socket
    conn,           \* the socket bound to conn
    openConns,      \* accepted client sockets not yet closed
    request, returnHTML,    \* locals of run_display_and_webserver
    sent,           \* what was written to the socket bound to conn
    stay_in_loop,
    dispCalls       \* display_weatherData calls since the last server.accept call

vars == <<pc, ctx, raised, intAt, temperature, pressure, humidity, written,
          lastRefresh, display, led, wifiNetworks, joinable, netIdx, i, wait,
          connectCalls, result, online, wlanActive, wlanTarget, server, conn,
          openConns, request, returnHTML, sent, stay_in_loop, dispCalls>>

ctlVars == <<ctx, intAt, stay_in_loop, dispCalls>>
valueVars == <<temperature, pressure, humidity>>
refreshVars == <<written, lastRefresh>>
readingVars == <<valueVars, refreshVars>>
uiVars == <<display, led>>
envVars == <<wifiNetworks, joinable, online>>
wifiVars == <<netIdx, i, wait, connectCalls, result>>
radioVars == <<wlanActive, wlanTarget>>
sockVars == <<server, conn, openConns, sent>>
webVars == <<server, conn, openConns, request, returnHTML, sent>>

\* the program stops with an uncaught exception e
Crash(e) == pc' = "crashed" /\ raised' = e

\* the call returns and the program goes on at statement p
Returns(p) == pc' = p /\ raised' = NoExc

\* ------------------------------------------------------------------ Init
\* lines 33-78: LED on, display object, Reading Set '', radio activated
Init ==
    /\ pc = "initialize_display"
    /\ ctx = "none"
    /\ raised = NoExc
    /\ intAt = "none"
    /\ temperature = "" /\ pressure = "" /\ humidity = ""
    /\ written = {}
    /\ lastRefresh = "none"
    /\ display = "blank"
    /\ led = "on"
    /\ \E n \in 0..MaxNetworks :
          /\ wifiNetworks = [k \in 1..n |-> k]
          /\ joinable \in SUBSET (1..n)
    /\ netIdx = 0 /\ i = 0 /\ wait = 0
    /\ connectCalls = <<>>
    /\ result = "pending"
    /\ online = "unread"
    /\ wlanActive = TRUE
    /\ wlanTarget = 0
    /\ server = "none"
    /\ conn = "unbound"
    /\ openConns = 0
    /\ request = "unset"
    /\ returnHTML = <<>>
    /\ sent = <<>>
    /\ stay_in_loop = FALSE
    /\ dispCalls = 0

\* --------------------------------------------------------- main sequence
\* initialize_display(): only draws
initialize_display ==
    /\ pc = "initialize_display"
    /\ \/ /\ display' = "connecting"
          /\ pc' = "wlan_disconnect"
          /\ raised' = NoExc
       \/ /\ \E e \in {OSErr(ECONNRESET, pc), KbdInt(pc)} : Crash(e)
          /\ UNCHANGED display
    /\ UNCHANGED <<ctlVars, readingVars, led, envVars, wifiVars, radioVars, webVars>>

\* ------------------------------------------------------- connect_to_wifi
\* what wlan.status() can report while network t is being joined
StatusReports(t) ==
    IF t \in joinable THEN STAT_MIN..STAT_GOT_IP ELSE STAT_MIN..(STAT_GOT_IP - 1)

\* what wlan.isconnected() can report while network t is the target
ConnectedReports(t) == IF t \in joinable THEN BOOLEAN ELSE {FALSE}

\* return from connect_to_wifi: its locals are gone
ReturnFromConnect(r) ==
    /\ result' = r
    /\ pc' = "setup_display"
    /\ netIdx' = 0 /\ i' = 0 /\ wait' = 0

\* entering the body of "for ssid, password in wifiNetworks.items()" at
\* candidate k, or leaving the loop with "return False"
ForNetwork(k) ==
    IF k <= Len(wifiNetworks)
    THEN /\ netIdx' = k /\ i' = 0 /\ pc' = "wlan_connect"
         /\ UNCHANGED <<result, wait>>
    ELSE ReturnFromConnect("False")

\* wlan.disconnect(); time.sleep(1)
wlan_disconnect_first ==
    /\ pc = "wlan_disconnect"
    /\ \/ /\ wlanTarget' = 0
          /\ raised' = NoExc
          /\ ForNetwork(1)
          /\ UNCHANGED connectCalls
       \/ /\ Crash(KbdInt(pc))
          /\ UNCHANGED <<wlanTarget, wifiVars>>
    /\ UNCHANGED <<ctlVars, readingVars, uiVars, envVars, wlanActive, webVars>>

\* wlan.connect(ssid, password); wait = 0
wlan_connect ==
    /\ pc = "wlan_connect"
    /\ \/ /\ wlanTarget' = wifiNetworks[netIdx]
          /\ connectCalls' = Append(connectCalls, wifiNetworks[netIdx])
          /\ wait' = 0
          /\ pc' = "wlan_status"
          /\ raised' = NoExc
       \/ /\ Crash(KbdInt(pc))
          /\ UNCHANGED <<wlanTarget, connectCalls, wait>>
    /\ UNCHANGED <<ctlVars, readingVars, uiVars, envVars, netIdx, i, result,
                   wlanActive, webVars>>

\* the condition of the polling loop, on the two status values it reads
KeepWaiting(s1, s2, w) == s1 >= 0 /\ s2 < STAT_GOT_IP /\ w < MaxWait

\* while wlan.status() >= 0 and wlan.status() < 3 and wait < 10:
\*     time.sleep(1); wait += 1
wlan_status ==
    /\ pc = "wlan_status"
    /\ \/ \E s1, s2 \in StatusReports(wlanTarget) :
             /\ raised' = NoExc
             /\ IF KeepWaiting(s1, s2, wait)
                THEN wait' = wait + 1 /\ pc' = "wlan_status"
                ELSE wait' = wait /\ pc' = "wlan_isconnected"
       \/ /\ Crash(KbdInt(pc))
          /\ UNCHANGED wait
    /\ UNCHANGED <<ctlVars, readingVars, uiVars, envVars, netIdx, i, connectCalls,
                   result, radioVars, webVars>>

\* NextTry with one try too many
NextTry_ThreeTries ==
    IF i + 1 < Tries + 1
    THEN /\ i' = i + 1 /\ pc' = "wlan_connect"
         /\ UNCHANGED <<netIdx, result, wait>>
    ELSE ForNetwork(netIdx + 1)

\* NextTry without the second try
NextTry_OneTry == ForNetwork(netIdx + 1)

\* the next round of "for i in range(2)", or the next candidate
NextTry ==
    IF i + 1 < Tries
    THEN /\ i' = i + 1 /\ pc' = "wlan_connect"
         /\ UNCHANGED <<netIdx, result, wait>>
    ELSE ForNetwork(netIdx + 1)

\* if wlan.isconnected(): return True   else: print(...)
wlan_isconnected ==
    /\ pc = "wlan_isconnected"
    /\ \/ \E up \in ConnectedReports(wlanTarget) :
             /\ raised' = NoExc
             /\ IF up
                THEN ReturnFromConnect("True")
                ELSE NextTry
       \/ /\ Crash(KbdInt(pc))
          /\ UNCHANGED <<netIdx, i, result, wait>>
    /\ UNCHANGED <<ctlVars, readingVars, uiVars, envVars, connectCalls,
                   radioVars, webVars>>

\* setup_display(): only draws
setup_display ==
    /\ pc = "setup_display"
    /\ \/ /\ display' = "layout"
          /\ Returns("main_if")
       \/ /\ \E e \in {OSErr(ECONNRESET, pc), KbdInt(pc)} : Crash(e)
          /\ UNCHANGED display
    /\ UNCHANGED <<ctlVars, readingVars, led, envVars, wifiVars, radioVars, webVars>>

\* ------------------------------------------ display_weatherData, callers
\* a call of display_weatherData() from call site `site`: it starts with
\* refresh_weatherData(), whose first statement creates the sensor driver
EnterDisplay(site) ==
    /\ pc' = "bme280"
    /\ ctx' = site
    /\ written' = {}
    /\ lastRefresh' = "running"

\* display_weatherData() returns to its call site
ReturnFromDisplay ==
    /\ raised' = NoExc
    /\ ctx' = "none"
    /\ CASE ctx = "first" -> pc' = "socket_create" /\ UNCHANGED dispCalls
         [] ctx = "handler" -> pc' = "accept" /\ dispCalls' = 0
         [] ctx = "only" -> pc' = "sleep" /\ UNCHANGED dispCalls

\* the except clauses of run_display_only
OnlyCatch(e) ==
    /\ raised' = e
    /\ IF e.kind = "KeyboardInterrupt"
       THEN /\ stay_in_loop' = FALSE
            /\ intAt' = e.at
            /\ pc' = "display_clear"
            /\ ctx' = "none"
            /\ UNCHANGED refreshVars
       ELSE /\ EnterDisplay("only")
            /\ UNCHANGED <<intAt, stay_in_loop>>

\* DisplayRaises with no except clause in run_display_only
DisplayRaises_AlwaysFatal(e) ==
    Crash(e) /\ UNCHANGED <<ctx, intAt, stay_in_loop, refreshVars>>

\* an exception leaves display_weatherData() and reaches its call site
DisplayRaises(e) ==
    IF ctx = "only"
    THEN OnlyCatch(e)
    ELSE Crash(e) /\ UNCHANGED <<ctx, intAt, stay_in_loop, refreshVars>>

\* MainBranch that takes the branch from what connect_to_wifi returned
MainBranch_ByResult(up) ==
    IF result = "True"
    THEN EnterDisplay("first") /\ UNCHANGED stay_in_loop
    ELSE EnterDisplay("only") /\ stay_in_loop' = TRUE

\* if wlan.isconnected(): run_display_and_webserver() else: run_display_only()
\* each function starts with a call of display_weatherData (lines 247, 327)
MainBranch(up) ==
    IF up
    THEN EnterDisplay("first") /\ UNCHANGED stay_in_loop
    ELSE EnterDisplay("only") /\ stay_in_loop' = TRUE

\* the main sequence reads wlan.isconnected() and takes its branch
main_if ==
    /\ pc = "main_if"
    /\ \/ \E up \in ConnectedReports(wlanTarget) :
             /\ raised' = NoExc
             /\ online' = IF up THEN "True" ELSE "False"
             /\ MainBranch(up)
       \/ /\ Crash(KbdInt(pc))
          /\ UNCHANGED <<ctx, stay_in_loop, refreshVars, online>>
    /\ UNCHANGED <<intAt, dispCalls, valueVars, uiVars, wifiNetworks, joinable,
                   wifiVars, radioVars, webVars>>

\* --------------------------------------------------- refresh_weatherData
\* SensorExcept that forgets one field
SensorExcept_KeepsTemperature(e) ==
    /\ raised' = e
    /\ UNCHANGED temperature
    /\ pressure' = NA
    /\ humidity' = NA
    /\ written' = {}
    /\ lastRefresh' = "failed"
    /\ pc' = "draw_temperature"

\* SensorExcept that resets only the fields the failed read did not reach
SensorExcept_OnlyMissing(e) ==
    /\ raised' = e
    /\ temperature' = IF "temperature" \in written THEN temperature ELSE NA
    /\ pressure' = IF "pressure" \in written THEN pressure ELSE NA
    /\ humidity' = NA
    /\ written' = {}
    /\ lastRefresh' = "failed"
    /\ pc' = "draw_temperature"

\* the except clause: it catches whatever the try block raised
SensorExcept(e) ==
    /\ raised' = e
    /\ temperature' = NA
    /\ pressure' = NA
    /\ humidity' = NA
    /\ written' = {}
    /\ lastRefresh' = "failed"
    /\ pc' = "draw_temperature"

\* what a step of the sensor transaction can raise
SensorErrors(at) == {OSErr(ECONNRESET, at), KbdInt(at)}

\* bme = bme280.BME280(i2c=i2c)
bme280 ==
    /\ pc = "bme280"
    /\ \/ /\ Returns("values0")
          /\ UNCHANGED readingVars
       \/ \E e \in SensorErrors(pc) : SensorExcept(e)
    /\ UNCHANGED <<ctlVars, uiVars, envVars, wifiVars, radioVars, webVars>>

\* temperature = bme.values[0]
values0 ==
    /\ pc = "values0"
    /\ \/ /\ \E v \in TemperatureValues : temperature' = v
          /\ written' = written \cup {"temperature"}
          /\ Returns("values1")
          /\ UNCHANGED <<pressure, humidity, lastRefresh>>
       \/ \E e \in SensorErrors(pc) : SensorExcept(e)
    /\ UNCHANGED <<ctlVars, uiVars, envVars, wifiVars, radioVars, webVars>>

\* pressure = bme.values[1]
values1 ==
    /\ pc = "values1"
    /\ \/ /\ \E v \in PressureValues : pressure' = v
          /\ written' = written \cup {"pressure"}
          /\ Returns("values2")
          /\ UNCHANGED <<temperature, humidity, lastRefresh>>
       \/ \E e \in SensorErrors(pc) : SensorExcept(e)
    /\ UNCHANGED <<ctlVars, uiVars, envVars, wifiVars, radioVars, webVars>>

\* humidity = bme.values[2], the end of the try block
values2 ==
    /\ pc = "values2"
    /\ \/ /\ \E v \in HumidityValues : humidity' = v
          /\ written' = written \cup {"humidity"}
          /\ lastRefresh' = "ok"
          /\ Returns("draw_temperature")
          /\ UNCHANGED <<temperature, pressure>>
       \/ \E e \in SensorErrors(pc) : SensorExcept(e)
    /\ UNCHANGED <<ctlVars, uiVars, envVars, wifiVars, radioVars, webVars>>

\* ------------------------------------------- display_weatherData: draws
\* what a draw on the LCD can raise
DrawErrors(at) == {OSErr(ECONNRESET, at), KbdInt(at)}

\* dprint (175, 65, ..., f"{temperature}  ")
draw_temperature ==
    /\ pc = "draw_temperature"
    /\ \/ /\ Returns("draw_pressure")
          /\ UNCHANGED <<ctlVars, refreshVars>>
       \/ /\ \E e \in DrawErrors(pc) : DisplayRaises(e)
          /\ UNCHANGED dispCalls
    /\ UNCHANGED <<valueVars, uiVars, envVars, wifiVars, radioVars, webVars>>

\* dprint (175, 107, ..., f"{pressure}  ")
draw_pressure ==
    /\ pc = "draw_pressure"
    /\ \/ /\ Returns("draw_humidity")
          /\ UNCHANGED <<ctlVars, refreshVars>>
       \/ /\ \E e \in DrawErrors(pc) : DisplayRaises(e)
          /\ UNCHANGED dispCalls
    /\ UNCHANGED <<valueVars, uiVars, envVars, wifiVars, radioVars, webVars>>

\* dprint (175, 150, ..., f"{humidity}  "), then the return
draw_humidity ==
    /\ pc = "draw_humidity"
    /\ \/ /\ ReturnFromDisplay
          /\ display' = "data"
          /\ UNCHANGED <<intAt, stay_in_loop, refreshVars>>
       \/ /\ \E e \in DrawErrors(pc) : DisplayRaises(e)
          /\ UNCHANGED <<dispCalls, display>>
    /\ UNCHANGED <<valueVars, led, envVars, wifiVars, radioVars, webVars>>

\* -------------------------------------------------------------- web_page
\* the text before, between and after the three values, cut where a value
\* is concatenated: each value stands between <span class="sensor"> and </span>
SpanOpen == "<span class=\"sensor\">"
SpanClose == "</span>"
PageHead == <<"<html><head>...<meta http-equiv=\"refresh\" content=\"60\">...</head>",
              "<body>...<table><tr><th>Parameters</th><th>Value</th></tr>",
              "<tr><td>Temperature</td><td>", SpanOpen>>
PageMid1 == <<SpanClose, "</td></tr><tr><td>Pressure</td><td>", SpanOpen>>
PageMid2 == <<SpanClose, "</td></tr><tr><td>Humidity</td><td>", SpanOpen>>
PageTail == <<SpanClose, "</td></tr></table></body></html>">>

\* web_page that also puts the request line into the page
web_page_EchoesRequest ==
    PageHead \o <<temperature>> \o PageMid1 \o <<pressure>> \o PageMid2
             \o <<humidity>> \o PageTail \o <<request>>

\* html = """...""" + temperature + """...""" + pressure + """...""" + humidity + """..."""
web_page ==
    PageHead \o <<temperature>> \o PageMid1 \o <<pressure>> \o PageMid2
             \o <<humidity>> \o PageTail

\* the contents of the value cells of a page, in page order
SensorCells(html) ==
    LET at == {j \in 2..(Len(html) - 1) :
                  html[j - 1] = SpanOpen /\ html[j + 1] = SpanClose}
        F[k \in 0..Len(html)] ==
            IF k = 0 THEN <<>>
            ELSE IF k \in at THEN Append(F[k - 1], html[k]) ELSE F[k - 1]
    IN  F[Len(html)]

\* 'HTTP/1.1 200 OK\r\nContent-type: text/html\r\n\r\n'
ResponseHeader == <<"HTTP/1.1 200 OK", "Content-type: text/html", "">>

\* ------------------------------------------- run_display_and_webserver
\* the start of the next round of "while stay_in_loop: try:"
NextIteration == pc' = "accept" /\ dispCalls' = 0

\* LoopCatch with the errno test lost: a timeout is only logged
LoopCatch_NoRefresh(e) ==
    /\ raised' = e
    /\ CASE e.kind = "OSError" ->
               /\ NextIteration
               /\ UNCHANGED <<ctx, intAt, stay_in_loop, refreshVars>>
         [] e.kind = "Exception" ->
               /\ pc' = "except_close"
               /\ UNCHANGED <<ctlVars, refreshVars>>
         [] e.kind = "KeyboardInterrupt" ->
               /\ stay_in_loop' = FALSE
               /\ intAt' = e.at
               /\ pc' = "server_close"
               /\ UNCHANGED <<ctx, dispCalls, refreshVars>>

\* the except clauses of the loop, for an exception e raised in its try block
LoopCatch(e) ==
    /\ raised' = e
    /\ CASE e.kind = "OSError" /\ e.errno = ETIMEDOUT ->
               /\ EnterDisplay("handler")
               /\ dispCalls' = dispCalls + 1
               /\ UNCHANGED <<intAt, stay_in_loop>>
         [] e.kind = "OSError" /\ e.errno # ETIMEDOUT ->
               /\ NextIteration
               /\ UNCHANGED <<ctx, intAt, stay_in_loop, refreshVars>>
         [] e.kind = "Exception" ->
               /\ pc' = "except_close"
               /\ UNCHANGED <<ctlVars, refreshVars>>
         [] e.kind = "KeyboardInterrupt" ->
               /\ stay_in_loop' = FALSE
               /\ intAt' = e.at
               /\ pc' = "server_close"
               /\ UNCHANGED <<ctx, dispCalls, refreshVars>>

\* server = socket.socket(...)
socket_create ==
    /\ pc = "socket_create"
    /\ \/ /\ server' = "open"
          /\ Returns("socket_listen")
       \/ /\ \E e \in {OSErr(ECONNRESET, pc), KbdInt(pc)} : Crash(e)
          /\ UNCHANGED server
    /\ UNCHANGED <<ctlVars, readingVars, uiVars, envVars, wifiVars, radioVars,
                   conn, openConns, request, returnHTML, sent>>

\* setsockopt, bind, listen(5); stay_in_loop=True; server.settimeout(30)
socket_listen ==
    /\ pc = "socket_listen"
    /\ \/ /\ server' = "listening"
          /\ stay_in_loop' = TRUE
          /\ raised' = NoExc
          /\ NextIteration
       \/ /\ \E e \in {OSErr(ECONNRESET, pc), KbdInt(pc)} : Crash(e)
          /\ UNCHANGED <<server, stay_in_loop, dispCalls>>
    /\ UNCHANGED <<ctx, intAt, readingVars, uiVars, envVars, wifiVars, radioVars,
                   conn, openConns, request, returnHTML, sent>>

\* what server.accept() can raise: the 30 s timeout, another error, the interrupt
AcceptErrors(at) == {OSErr(ETIMEDOUT, at), OSErr(ECONNRESET, at), KbdInt(at)}

\* conn, addr = server.accept()
accept ==
    /\ pc = "accept"
    /\ \/ /\ openConns < MaxConns
          /\ conn' = "open"
          /\ openConns' = openConns + 1
          /\ sent' = <<>>
          /\ Returns("conn_settimeout")
          /\ UNCHANGED <<ctlVars, refreshVars>>
       \/ /\ \E e \in AcceptErrors(pc) : LoopCatch(e)
          /\ UNCHANGED <<conn, openConns, sent>>
    /\ UNCHANGED <<valueVars, uiVars, envVars, wifiVars, radioVars, server,
                   request, returnHTML>>

\* conn.settimeout(3.0)
conn_settimeout ==
    /\ pc = "conn_settimeout"
    /\ \/ /\ Returns("recv")
          /\ UNCHANGED <<ctlVars, refreshVars>>
       \/ \E e \in {OSErr(ECONNRESET, pc), KbdInt(pc)} : LoopCatch(e)
    /\ UNCHANGED <<valueVars, uiVars, envVars, wifiVars, radioVars, webVars>>

\* what conn.recv(1024) can raise
RecvErrors(at) == {OSErr(ETIMEDOUT, at), OSErr(ECONNRESET, at), KbdInt(at)}

\* RecvExcept with the inner try missing: the failure reaches the loop's
\* except clauses, except_close included
RecvExcept_Propagates(e) == pc' = "except_close" /\ raised' = e

\* the inner "except:" : it catches whatever conn.recv raised and goes on
RecvExcept(e) == pc' = "web_page" /\ raised' = e

\* try: request = conn.recv(1024)  except: print(...)
recv ==
    /\ pc = "recv"
    /\ \/ /\ \E r \in Requests : request' = r
          /\ Returns("web_page")
       \/ /\ \E e \in RecvErrors(pc) : RecvExcept(e)
          /\ UNCHANGED request
    /\ UNCHANGED <<ctlVars, readingVars, uiVars, envVars, wifiVars, radioVars,
                   sockVars, returnHTML>>

\* returnHTML = web_page()
call_web_page ==
    /\ pc = "web_page"
    /\ \/ /\ returnHTML' = web_page
          /\ Returns("send")
          /\ UNCHANGED <<ctlVars, refreshVars>>
       \/ /\ \E e \in {OtherExc(pc), KbdInt(pc)} : LoopCatch(e)
          /\ UNCHANGED returnHTML
    /\ UNCHANGED <<valueVars, uiVars, envVars, wifiVars, radioVars, sockVars, request>>

\* what a write on the connection can raise: the 3 s timeout, another
\* error, the interrupt
WriteErrors(at) == {OSErr(ETIMEDOUT, at), OSErr(ECONNRESET, at), KbdInt(at)}

\* conn.send('HTTP/1.1 200 OK\r\nContent-type: text/html\r\n\r\n')
send ==
    /\ pc = "send"
    /\ \/ /\ sent' = sent \o ResponseHeader
          /\ Returns("sendall")
          /\ UNCHANGED <<ctlVars, refreshVars>>
       \/ /\ \E e \in WriteErrors(pc) : LoopCatch(e)
          /\ UNCHANGED sent
    /\ UNCHANGED <<valueVars, uiVars, envVars, wifiVars, radioVars, server, conn,
                   openConns, request, returnHTML>>

\* conn.sendall(returnHTML)
sendall ==
    /\ pc = "sendall"
    /\ \/ /\ sent' = sent \o returnHTML
          /\ Returns("conn_close")
          /\ UNCHANGED <<ctlVars, refreshVars>>
       \/ /\ \E e \in WriteErrors(pc) : LoopCatch(e)
          /\ UNCHANGED sent
    /\ UNCHANGED <<valueVars, uiVars, envVars, wifiVars, radioVars, server, conn,
                   openConns, request, returnHTML>>

\* the effect of conn.close() on the socket bound to conn
CloseConn ==
    /\ conn' = "closed"
    /\ openConns' = IF conn = "open" THEN openConns - 1 ELSE openConns

\* conn.close(), the last statement of the try block
conn_close ==
    /\ pc = "conn_close"
    /\ \/ /\ CloseConn
          /\ raised' = NoExc
          /\ NextIteration
          /\ UNCHANGED <<ctx, intAt, stay_in_loop, refreshVars>>
       \/ /\ \E e \in {OSErr(ECONNRESET, pc), KbdInt(pc)} : LoopCatch(e)
          /\ UNCHANGED <<conn, openConns>>
    /\ UNCHANGED <<valueVars, uiVars, envVars, wifiVars, radioVars, server,
                   request, returnHTML, sent>>

\* except Exception as e: print(...); conn.close()
except_close ==
    /\ pc = "except_close"
    /\ \/ /\ CloseConn
          /\ raised' = NoExc
          /\ NextIteration
       \/ /\ \E e \in {OSErr(ECONNRESET, pc), KbdInt(pc)} : Crash(e)
          /\ UNCHANGED <<conn, openConns, dispCalls>>
    /\ UNCHANGED <<ctx, intAt, stay_in_loop, readingVars, uiVars, envVars, wifiVars,
                   radioVars, server, request, returnHTML, sent>>

\* after the loop: server.close(); time.sleep(1)
server_close ==
    /\ pc = "server_close"
    /\ \/ /\ server' = "closed"
          /\ Returns("wlan_disconnect_last")
       \/ /\ \E e \in {OSErr(ECONNRESET, pc), KbdInt(pc)} : Crash(e)
          /\ UNCHANGED server
    /\ UNCHANGED <<ctlVars, readingVars, uiVars, envVars, wifiVars, radioVars,
                   conn, openConns, request, returnHTML, sent>>

\* wlan.disconnect(); time.sleep(1)
wlan_disconnect_last ==
    /\ pc = "wlan_disconnect_last"
    /\ \/ /\ wlanTarget' = 0
          /\ Returns("wlan_active_false")
       \/ /\ \E e \in {OSErr(ECONNRESET, pc), KbdInt(pc)} : Crash(e)
          /\ UNCHANGED wlanTarget
    /\ UNCHANGED <<ctlVars, readingVars, uiVars, envVars, wifiVars, wlanActive, webVars>>

\* wlan.active(False), then the return to the main sequence
wlan_active_false ==
    /\ pc = "wlan_active_false"
    /\ \/ /\ wlanActive' = FALSE
          /\ Returns("display_clear")
       \/ /\ \E e \in {OSErr(ECONNRESET, pc), KbdInt(pc)} : Crash(e)
          /\ UNCHANGED wlanActive
    /\ UNCHANGED <<ctlVars, readingVars, uiVars, envVars, wifiVars, wlanTarget, webVars>>

\* ------------------------------------------------------ run_display_only
\* time.sleep(30), then the next round of the loop
sleep ==
    /\ pc = "sleep"
    /\ \/ /\ EnterDisplay("only")
          /\ raised' = NoExc
          /\ UNCHANGED <<intAt, stay_in_loop>>
       \/ OnlyCatch(KbdInt(pc))
    /\ UNCHANGED <<dispCalls, valueVars, uiVars, envVars, wifiVars, radioVars, webVars>>

\* ------------------------------------------------ main sequence, the end
\* display.clear()
display_clear ==
    /\ pc = "display_clear"
    /\ \/ /\ display' = "cleared"
          /\ Returns("led_off")
       \/ /\ \E e \in {OSErr(ECONNRESET, pc), KbdInt(pc)} : Crash(e)
          /\ UNCHANGED display
    /\ UNCHANGED <<ctlVars, readingVars, led, envVars, wifiVars, radioVars, webVars>>

\* led.off()
led_off ==
    /\ pc = "led_off"
    /\ \/ /\ led' = "off"
          /\ Returns("done")
       \/ /\ Crash(KbdInt(pc))
          /\ UNCHANGED led
    /\ UNCHANGED <<ctlVars, readingVars, display, envVars, wifiVars, radioVars, webVars>>

Next ==
    \/ initialize_display
    \/ wlan_disconnect_first
    \/ wlan_connect
    \/ wlan_status
    \/ wlan_isconnected
    \/ setup_display
    \/ main_if
    \/ bme280
    \/ values0
    \/ values1
    \/ values2
    \/ draw_temperature
    \/ draw_pressure
    \/ draw_humidity
    \/ socket_create
    \/ socket_listen
    \/ accept
    \/ conn_settimeout
    \/ recv
    \/ call_web_page
    \/ send
    \/ sendall
    \/ conn_close
    \/ except_close
    \/ server_close
    \/ wlan_disconnect_last
    \/ wlan_active_false
    \/ sleep
    \/ display_clear
    \/ led_off

Spec == Init /\ [][Next]_vars

\* the interpreter always executes the next statement of the running program
FairSpec == Spec /\ WF_vars(Next)

\* ------------------------------------------------------------------ claims
\* the calls of the loop of run_display_and_webserver made on an accepted
\* connection, from conn.settimeout to conn.close (SERVING)
ServingPcs == {"conn_settimeout", "recv", "web_page", "send", "sendall", "conn_close"}

\* the call at the current statement raises exception kind k in this step
RaisesHere(k) == raised'.kind = k /\ raised'.at = pc

\* C1: an interrupt delivered while the loop is blocked in server.accept or
\* at any point of serving a connection makes the loop leave and enter the
\* shutdown sequence, which starts with server.close()
C1_InterruptEndsLoop ==
    [][(pc \in {"accept"} \cup ServingPcs /\ RaisesHere("KeyboardInterrupt"))
          => (pc' = "server_close" /\ ~stay_in_loop')]_vars

\* C2: after an interrupt received while a connection is being served, the
\* connection is closed before the listening socket, the listening socket
\* before the network is disconnected, and the network is disconnected
\* before the radio is powered down
C2_ShutdownOrder ==
    intAt \in ServingPcs =>
        /\ server = "closed" => conn = "closed"
        /\ wlanTarget = 0 => server = "closed"
        /\ ~wlanActive => wlanTarget = 0

\* C3: an error other than an interrupt raised by a call on the accepted
\* connection or by web_page (lines 269-298) never ends the loop or the program
C3_ServingErrorNeverFatal ==
    ~(/\ pc = "crashed"
      /\ raised.kind \in {"OSError", "Exception"}
      /\ raised.at \in ServingPcs \cup {"except_close"})

\* C4: whenever the loop calls server.accept every connection accepted
\* before is closed, and at most one client connection is open at any time
C4_OneConnectionAtATime ==
    /\ pc = "accept" => openConns = 0
    /\ openConns <= 1

\* the listening socket, the radio and the client sockets
FrameOfRefresh == <<server, wlanActive, wlanTarget, conn, openConns>>

\* C5: when server.accept times out (errno 110) display_weatherData is
\* invoked, once, and the loop returns to server.accept; the listening
\* socket stays open and neither it, the network nor the radio is changed
C5_IdleTimeoutRefreshes ==
    /\ [][(pc = "accept" /\ raised' = OSErr(ETIMEDOUT, "accept"))
             => (/\ pc' = "bme280" /\ ctx' = "handler" /\ dispCalls' = 1
                 /\ UNCHANGED FrameOfRefresh)]_vars
    /\ [][ctx = "handler"
             => (/\ server = "listening" /\ UNCHANGED FrameOfRefresh
                 /\ (pc = "draw_humidity" /\ raised' = NoExc)
                       => (pc' = "accept" /\ stay_in_loop')
                 /\ pc' = "accept" => (pc = "draw_humidity" /\ dispCalls = 1))]_vars

\* an accept timeout with no connection ever accepted has led to a refresh
\* that is about to return to server.accept
C5_Witness ==
    /\ ctx = "handler" /\ pc = "draw_humidity" /\ conn = "unbound"
    /\ dispCalls = 1 /\ server = "listening"

\* C6: on an accepted connection the request read goes on to the page
\* whether it succeeds or fails; when the writes succeed the connection
\* has received the status line and headers, then the page of web_page and
\* nothing else, and it is then closed and the loop waits again
C6_AlwaysSameResponse ==
    /\ [](pc = "sendall" => sent = ResponseHeader)
    /\ [](pc = "conn_close" =>
             /\ sent = ResponseHeader \o web_page
             /\ SensorCells(returnHTML) = <<temperature, pressure, humidity>>)
    /\ [][pc = "recv" => pc' = "web_page"]_vars
    /\ [][(pc = "conn_close" /\ raised' = NoExc)
             => (conn' = "closed" /\ pc' = "accept")]_vars

\* a complete response on a connection whose request could not be read
C6_Witness ==
    /\ pc = "conn_close" /\ request = "unset"
    /\ sent = ResponseHeader \o web_page

\* the wlan.connect calls of 2 tries on each of the candidates 1..n
RECURSIVE TwiceEach(_)
TwiceEach(n) == IF n = 0 THEN <<>> ELSE TwiceEach(n - 1) \o <<n, n>>

\* C7: when connect_to_wifi returns True, the network N just tried is one
\* the radio can join, wlan.connect was called 2 times for each of the N-1
\* earlier candidates, then 1 or 2 times for the Nth, and never for a later one
C7_ReturnsTrueAtFirstJoin ==
    result = "True" =>
        /\ connectCalls # <<>>
        /\ LET n == connectCalls[Len(connectCalls)]
           IN  /\ n \in joinable
               /\ pc = "setup_display" => wlanTarget = n
               /\ \/ connectCalls = TwiceEach(n - 1) \o <<n>>
                  \/ connectCalls = TwiceEach(n)

\* True is returned on the first try of the second candidate
C7_Witness ==
    /\ result = "True" /\ pc = "setup_display"
    /\ connectCalls = <<1, 1, 2>> /\ Len(wifiNetworks) >= 2

\* C8: connect_to_wifi always ends; a try never waits more than 10 polls;
\* and with no candidate, or none that can be joined, it returns False
\* after 2 wlan.connect calls for every candidate, in order
C8_ReturnsFalseAfterAllTries ==
    /\ [](wait <= MaxWait)
    /\ []((result # "pending" /\ joinable = {}) =>
             (result = "False" /\ connectCalls = TwiceEach(Len(wifiNetworks))))
    /\ <>(result # "pending" \/ pc = "crashed")

\* False is returned after two candidates were tried twice
C8_Witness ==
    /\ result = "False" /\ joinable = {}
    /\ connectCalls = <<1, 1, 2, 2>>

AllNA == temperature = NA /\ pressure = NA /\ humidity = NA

AllMeasured ==
    /\ temperature \in TemperatureValues
    /\ pressure \in PressureValues
    /\ humidity \in HumidityValues

\* C9: a failure at any step of the sensor transaction ends
\* refresh_weatherData without an exception, with the three fields at
\* "n/a", and a page built after it has "n/a" in its three value cells
C9_SensorFailureGivesSentinel ==
    /\ [][(pc \in {"bme280", "values0", "values1", "values2"} /\ raised' # NoExc)
             => (pc' = "draw_temperature" /\ lastRefresh' = "failed")]_vars
    /\ [](lastRefresh = "failed" =>
             (AllNA /\ SensorCells(web_page) = <<NA, NA, NA>>))
    /\ []((lastRefresh = "failed" /\ pc \in {"send", "sendall", "conn_close"})
             => SensorCells(returnHTML) = <<NA, NA, NA>>)

\* a page built after a failed sensor transaction has been sent
C9_Witness ==
    /\ pc = "conn_close" /\ lastRefresh = "failed"
    /\ SensorCells(returnHTML) = <<NA, NA, NA>>

\* the statements that read the Reading Set
ReadPcs == {"draw_temperature", "draw_pressure", "draw_humidity", "web_page"}

\* C10: wherever the Reading Set is read it holds either three "n/a", and
\* then the last sensor transaction failed, or the three values assigned
\* by the last sensor transaction, which succeeded; never a mix
C10_ReadingSetNeverPartial ==
    pc \in ReadPcs =>
        \/ lastRefresh = "failed" /\ AllNA
        \/ lastRefresh = "ok" /\ written = Fields /\ AllMeasured

\* the Reading Set is about to be drawn after the read of the second value
\* failed, the first value having been assigned
C10_Witness ==
    /\ pc = "draw_temperature" /\ raised.at = "values1"
    /\ lastRefresh = "failed" /\ AllNA

\* the statements of run_display_and_webserver from the socket on
WebPcs == {"socket_create", "socket_listen", "accept", "except_close",
           "server_close", "wlan_disconnect_last", "wlan_active_false"}
              \cup ServingPcs

\* C11 as claimed: the web-server loop runs exactly when connect_to_wifi
\* returned True and run_display_only exactly when it returned False
C11_VariantByConnectResult ==
    /\ ctx = "first" => result = "True"
    /\ ctx = "only" => result = "False"

\* C11 as amended: the main sequence runs run_display_and_webserver exactly
\* when its own wlan.isconnected() call reports True and run_display_only
\* exactly when it reports False, whatever connect_to_wifi returned; in the
\* display-only variant no socket is created, bound or accepted on
C11_VariantByIsConnected ==
    /\ [][(pc = "main_if" /\ raised' = NoExc)
             => /\ online' = "True" <=> ctx' = "first"
                /\ online' = "False" <=> ctx' = "only"
                /\ online' # "unread"]_vars
    /\ [](ctx \in {"first", "handler"} \/ pc \in WebPcs => online = "True")
    /\ [](ctx = "only" \/ pc = "sleep" => online = "False")
    /\ [](online # "True" => (server = "none" /\ conn = "unbound" /\ openConns = 0))

\* the display-only loop is running although connect_to_wifi returned True
C11_Witness ==
    /\ pc = "sleep" /\ online = "False" /\ result = "True" /\ server = "none"

SensorPcs == {"bme280", "values0", "values1", "values2"}
DrawPcs == {"draw_temperature", "draw_pressure", "draw_humidity"}

\* an iteration of the loop of run_display_only is under way
InOnlyLoop == (ctx = "only" /\ pc \in SensorPcs \cup DrawPcs) \/ pc = "sleep"

\* C12: in run_display_only an interrupt delivered during the sensor
\* read, during the draws or during the sleep ends the loop, and nothing
\* but an interrupt ends it
C12_OnlyInterruptEndsLoop ==
    [][InOnlyLoop =>
          (RaisesHere("KeyboardInterrupt") <=> (pc' = "display_clear" /\ ~stay_in_loop'))]_vars

\* the program has stopped: it ran to its end, or an exception ended it
Stopped == pc \in {"done", "crashed"}

\* a run whose only fault is one interrupt delivered inside a service loop:
\* it was caught by the loop and the program ran to its end, or it ended
\* the program from inside an except clause of the web-server loop
OneInterruptInLoop ==
    \/ pc = "done" /\ intAt # "none"
    \/ /\ pc = "crashed" /\ raised.kind = "KeyboardInterrupt" /\ intAt = "none"
       /\ (ctx = "handler" \/ raised.at = "except_close")

\* C13: a run in which an interrupt is delivered inside a service loop
\* ends with the display cleared and the LED off
C13_InterruptClearsDisplay ==
    (Stopped /\ OneInterruptInLoop) => (display = "cleared" /\ led = "off")

\* C14: when the program has ended after an interrupt caught by either
\* service loop, the listening socket if created is closed, no client
\* connection is open, the network is disconnected and the radio is off
C14_NothingHalfOpen ==
    (pc = "done" /\ intAt # "none") =>
        /\ server \in {"none", "closed"}
        /\ conn # "open" /\ openConns = 0
        /\ wlanTarget = 0
        /\ ~wlanActive

\* C15: a failure of server.close() or of wlan.disconnect() in the
\* shutdown sequence is not fatal: the later steps and the end of the main
\* sequence are still executed
C15_ShutdownBestEffort ==
    (raised.kind = "OSError" /\ raised.at \in {"server_close", "wlan_disconnect_last"})
        => pc # "crashed"

\* C16 as claimed: a failing draw of a periodic refresh ends the program
\* in both loop variants
C16_DrawFailureFatal ==
    [][(pc \in DrawPcs /\ ctx \in {"handler", "only"} /\ RaisesHere("OSError"))
          => pc' = "crashed"]_vars

\* C16 as amended: a failing draw ends the program when display_weatherData
\* was called by run_display_and_webserver; in run_display_only it is caught
\* and the loop goes on with the next display_weatherData call
C16_DrawFailureFatalInWebLoopOnly ==
    [][(pc \in DrawPcs /\ RaisesHere("OSError"))
          => IF ctx = "only"
             THEN pc' = "bme280" /\ ctx' = "only" /\ stay_in_loop' /\ intAt' = "none"
             ELSE pc' = "crashed"]_vars

\* the display-only loop has started its next round after a failed draw
C16_Witness ==
    /\ pc = "bme280" /\ ctx = "only" /\ stay_in_loop
    /\ raised.kind = "OSError" /\ raised.at \in DrawPcs

\* C17: a web_page call changes nothing but the variable its result is
\* assigned to; its text has the three values, each in its own cell, in the
\* order temperature, pressure, humidity; and when the page of the previous
\* call was built from the same three values the new text is identical to it
C17_WebPagePure ==
    [][(pc = "web_page" /\ raised' = NoExc) =>
          /\ UNCHANGED <<valueVars, refreshVars, sockVars, uiVars, radioVars,
                         request, ctlVars>>
          /\ SensorCells(returnHTML') = <<temperature, pressure, humidity>>
          /\ SensorCells(returnHTML) = <<temperature, pressure, humidity>>
                => returnHTML' = returnHTML]_vars

\* web_page is about to be called again with the values of the previous
\* call, for another request
C17_Witness ==
    /\ pc = "web_page" /\ returnHTML # <<>>
    /\ SensorCells(returnHTML) = <<temperature, pressure, humidity>>
    /\ request = "POST /x HTTP/1.1"

\* the loop of run_display_and_webserver is running
InWebLoop ==
    /\ pc # "crashed"
    /\ (pc \in {"accept", "except_close"} \cup ServingPcs \/ ctx = "handler")

\* C18: unless an interrupt is delivered, display_weatherData is called
\* again and again for as long as the web-server loop runs
C18_DisplayRefreshedForever ==
    \/ <>(raised.kind = "KeyboardInterrupt")
    \/ []<>(~InWebLoop \/ (pc = "bme280" /\ ctx = "handler"))

\* C19: inside the loop display_weatherData is only called for the
\* timeout of server.accept, never for a timeout raised on a connection
C19_RefreshOnlyOnIdleTimeout ==
    (pc = "bme280" /\ ctx = "handler") => raised = OSErr(ETIMEDOUT, "accept")
====
